---- MODULE Spec2Model ----
(***************************************************************************)
(* Model of packages/cdk8s-cli/lib/import/k8s.ts: discovery of the         *)
(* top-level API objects of a Kubernetes JSON schema, selection of one     *)
(* version per kind, and the generateTypeScript pipeline around them.      *)
(*                                                                         *)
(* A definition name is a sequence of dot-separated segments, a segment a  *)
(* sequence of tokens ("v", a numeral, "alpha"/"beta", or a word), so that *)
(* the version pattern is recognised token by token.                       *)
(***************************************************************************)
EXTENDS Integers, Sequences, FiniteSets, TLC

VARIABLES
  pc,        \* position of generateTypeScript / of the driver of the calls
  schema,    \* schema.definitions, in Object.entries order: Seq([name, def])
  include,   \* options.include (only ever read through include.includes)
  map,       \* the index, in Object.values order: Seq([key, defs])
  result,    \* the array selectApiObjects returned last
  out,       \* the lines written to the CodeMaker
  idx,       \* position of the emit loop over topLevelObjects (0: not started)
  calls,     \* the results of the successive selectApiObjects calls on map
  other,     \* a second run over the same definitions in another order
  operands,  \* three candidates handed to the comparator
  verdicts   \* what the comparator answered for them

vars == <<pc, schema, include, map, result, out, idx, calls, other, operands, verdicts>>

-----------------------------------------------------------------------------
(* Bounds *)

MaxDefs == 3       \* definitions in a schema (pipeline)
MaxInclude == 2    \* names in the include list
MaxEntries == 3    \* definitions in a schema (index builder alone)
MaxPermuted == 3   \* definitions in a schema (two orders, repeated calls)
MaxCalls == 2      \* successive calls of selectApiObjects on one index

-----------------------------------------------------------------------------
(* Names *)

Numerals == {"1", "2", "3", "10"}

NumVal(n) == CASE n = "1" -> 1 [] n = "2" -> 2 [] n = "3" -> 3 [] n = "10" -> 10 [] OTHER -> 0

W(w) == <<w>>
V1 == <<"v", "1">>
V2 == <<"v", "2">>
V10 == <<"v", "10">>
V1beta1 == <<"v", "1", "beta", "1">>
V1beta2 == <<"v", "1", "beta", "2">>
V1alpha1 == <<"v", "1", "alpha", "1">>
V1alpha3 == <<"v", "1", "alpha", "3">>
V2alpha1 == <<"v", "2", "alpha", "1">>

AppsV1Deployment == <<W("apps"), V1, W("Deployment")>>
AppsV1beta1Deployment == <<W("apps"), V1beta1, W("Deployment")>>
ExtV1Deployment == <<W("extensions"), V1, W("Deployment")>>
CoreV1Pod == <<W("core"), V1, W("Pod")>>
AppsWidget == <<W("apps"), W("Widget")>>

Names == {AppsV1Deployment, AppsV1beta1Deployment, ExtV1Deployment, CoreV1Pod, AppsWidget}

Versions == {V1, V2, V10, V1beta1, V1beta2, V1alpha1, V1alpha3, V2alpha1}

-----------------------------------------------------------------------------
(* Schema definitions *)

Gvk(g, v, k) == [group |-> g, version |-> v, kind |-> k]

GvkA == Gvk("apps", "v1", "Deployment")
GvkB == Gvk("extensions", "v1beta1", "Deployment")

\* def[X_GROUP_VERSION_KIND] (hasGvk: the key is present) and def.properties
\* (hasProps: the key is present; props: the property names it declares)
Def(hasGvk, gvk, hasProps, props) ==
  [hasGvk |-> hasGvk, gvk |-> gvk, hasProps |-> hasProps, props |-> props]

ObjectDef == Def(TRUE, <<GvkA>>, TRUE, {"metadata", "spec"})
TwoGvkDef == Def(TRUE, <<GvkB, GvkA>>, TRUE, {"metadata"})
OptionsDef == Def(TRUE, <<GvkA>>, TRUE, {"gracePeriodSeconds"})
NoPropsDef == Def(TRUE, <<GvkA>>, FALSE, {})
EmptyGvkDef == Def(TRUE, <<>>, TRUE, {"metadata"})
DataDef == Def(FALSE, <<>>, TRUE, {"metadata"})

AllDefs == {ObjectDef, TwoGvkDef, OptionsDef, NoPropsDef, EmptyGvkDef, DataDef}

\* the schemas of at most n definitions: sequences of (name, def) pairs with
\* distinct names (the keys of a JSON object)
SchemasOf(names, defs, n) ==
  UNION {{s \in [1..k -> [name : names, def : defs]] :
            \A i, j \in 1..k : s[i].name = s[j].name => i = j} : k \in 0..n}

IncludesOf(names, n) == {s \in SUBSET names : Cardinality(s) <= n}

-----------------------------------------------------------------------------
(* k8s-util: parseApiTypeName and compareApiVersions *)

IsVersionSegment(seg) ==
  /\ Len(seg) \in {2, 4}
  /\ seg[1] = "v"
  /\ seg[2] \in Numerals
  /\ Len(seg) = 4 => (seg[3] \in {"alpha", "beta"} /\ seg[4] \in Numerals)

SetMax(S) == CHOOSE x \in S : \A y \in S : y <= x

parseApiTypeName(fullname) ==
  LET at == {i \in 1..Len(fullname) : IsVersionSegment(fullname[i])}
  IN IF at = {}
     THEN [fullname |-> fullname, basename |-> <<>>, group |-> <<>>, version |-> <<>>]
     ELSE LET i == SetMax(at)
          IN [fullname |-> fullname,
              basename |-> SubSeq(fullname, i + 1, Len(fullname)),
              group |-> SubSeq(fullname, 1, i - 1),
              version |-> fullname[i]]

Major(v) == IF Len(v) >= 2 THEN NumVal(v[2]) ELSE 0
Stability(v) == IF Len(v) < 4 THEN 2 ELSE IF v[3] = "beta" THEN 1 ELSE 0
Trailing(v) == IF Len(v) = 4 THEN NumVal(v[4]) ELSE 0

Sign(n) == IF n > 0 THEN 1 ELSE IF n < 0 THEN -1 ELSE 0

\* variant: the stability suffix compared as text ("" < "alpha" < "beta")
compareApiVersions_SuffixAsText(lhs, rhs) ==
  LET suffix(v) == IF Len(v) < 4 THEN 0 ELSE IF v[3] = "alpha" THEN 1 ELSE 2
  IN IF Major(lhs.version) # Major(rhs.version)
     THEN Sign(Major(lhs.version) - Major(rhs.version))
     ELSE IF suffix(lhs.version) # suffix(rhs.version)
     THEN Sign(suffix(lhs.version) - suffix(rhs.version))
     ELSE Sign(Trailing(lhs.version) - Trailing(rhs.version))

compareApiVersions(lhs, rhs) ==
  IF Major(lhs.version) # Major(rhs.version)
  THEN Sign(Major(lhs.version) - Major(rhs.version))
  ELSE IF Stability(lhs.version) # Stability(rhs.version)
  THEN Sign(Stability(lhs.version) - Stability(rhs.version))
  ELSE Sign(Trailing(lhs.version) - Trailing(rhs.version))

-----------------------------------------------------------------------------
(* tryGetObjectName: <<>> is undefined, <<gvk>> the object name *)

\* variant: the metadata check left out
tryGetObjectName_NoMetadataCheck(def) ==
  IF ~def.hasGvk THEN <<>>
  ELSE IF def.gvk = <<>> THEN <<>>
  ELSE <<def.gvk[1]>>

tryGetObjectName(def) ==
  IF ~def.hasGvk THEN <<>>
  ELSE IF def.gvk = <<>> THEN <<>>
  ELSE IF ~(def.hasProps /\ "metadata" \in def.props) THEN <<>>
  ELSE <<def.gvk[1]>>

-----------------------------------------------------------------------------
(* findApiObjectDefinitions *)

ApiObjectDefinition(type, def) ==
  [fullname |-> type.fullname, basename |-> type.basename, group |-> type.group,
   version |-> type.version, schema |-> def]

HasKey(m, key) == \E i \in 1..Len(m) : m[i].key = key

\* variant: map[key] = [d], the list replaced instead of extended
MapPush_Overwrites(m, key, d) ==
  IF \E i \in 1..Len(m) : m[i].key = key
  THEN [i \in 1..Len(m) |-> IF m[i].key = key THEN [m[i] EXCEPT !.defs = <<d>>] ELSE m[i]]
  ELSE Append(m, [key |-> key, defs |-> <<d>>])

\* list = map[key] ?? []; map[key] = list; list.push(d)
MapPush(m, key, d) ==
  IF HasKey(m, key)
  THEN [i \in 1..Len(m) |->
          IF m[i].key = key THEN [m[i] EXCEPT !.defs = Append(@, d)] ELSE m[i]]
  ELSE Append(m, [key |-> key, defs |-> <<d>>])

FindStep(m, typename, def) ==
  IF tryGetObjectName(def) = <<>>
  THEN m
  ELSE LET type == parseApiTypeName(typename)
       IN MapPush(m, type.basename, ApiObjectDefinition(type, def))

RECURSIVE FindLoop(_, _)
FindLoop(entries, m) ==
  IF entries = <<>> THEN m
  ELSE FindLoop(Tail(entries), FindStep(m, Head(entries).name, Head(entries).def))

findApiObjectDefinitions(s) == FindLoop(s, <<>>)

-----------------------------------------------------------------------------
(* selectApiObjects *)

\* defs.sort(compareApiVersions): ascending and stable
\* variant: equally ranked candidates swap places on every sort
RECURSIVE Insert_TiesSwapped(_, _)
Insert_TiesSwapped(sorted, d) ==
  IF sorted = <<>> THEN <<d>>
  ELSE LET last == sorted[Len(sorted)]
       IN IF compareApiVersions(last, d) >= 0
          THEN Append(Insert_TiesSwapped(SubSeq(sorted, 1, Len(sorted) - 1), d), last)
          ELSE Append(sorted, d)

RECURSIVE Insert(_, _)
Insert(sorted, d) ==
  IF sorted = <<>> THEN <<d>>
  ELSE LET last == sorted[Len(sorted)]
       IN IF compareApiVersions(last, d) > 0
          THEN Append(Insert(SubSeq(sorted, 1, Len(sorted) - 1), d), last)
          ELSE Append(sorted, d)

\* variant: the sort left out
Sort_Skipped(defs) == defs

RECURSIVE Sort(_)
Sort(defs) ==
  IF defs = <<>> THEN <<>>
  ELSE Insert(Sort(SubSeq(defs, 1, Len(defs) - 1)), defs[Len(defs)])

\* defs.find(x => include.includes(x.fullname)): the index of the first match, 0 if none
FindIncluded(defs, inc) ==
  LET hits == {i \in 1..Len(defs) : defs[i].fullname \in inc}
  IN IF hits = {} THEN 0 ELSE CHOOSE i \in hits : \A j \in hits : i <= j

\* variant: the include list is not consulted
Selected_IgnoresInclude(sorted, inc) == sorted[Len(sorted)]

\* one round of the loop, after the sort: the definition pushed to result
Selected(sorted, inc) ==
  LET included == FindIncluded(sorted, inc)
  IN IF included # 0 THEN sorted[included] ELSE sorted[Len(sorted)]

\* variant: result.push runs once per candidate instead of once per kind
RECURSIVE selectApiObjects_PushPerCandidate(_, _)
selectApiObjects_PushPerCandidate(m, inc) ==
  IF m = <<>> THEN <<>>
  ELSE [j \in 1..Len(m[1].defs) |-> Selected(Sort(m[1].defs), inc)]
         \o selectApiObjects_PushPerCandidate(Tail(m), inc)

\* variant: the selection reads the lists in discovery order
selectApiObjects_Unsorted(m, inc) == [i \in 1..Len(m) |-> Selected(m[i].defs, inc)]

selectApiObjects(m, inc) == [i \in 1..Len(m) |-> Selected(Sort(m[i].defs), inc)]

\* the map after the call: every list sorted in place
SortedInPlace(m) == [i \in 1..Len(m) |-> [m[i] EXCEPT !.defs = Sort(@)]]

-----------------------------------------------------------------------------
(* The index builder alone *)

IndexSchemas == SchemasOf(Names, AllDefs, MaxEntries)

Idle ==
  /\ include = {} /\ result = <<>> /\ out = <<>> /\ idx = 0
  /\ calls = <<>> /\ other = <<>>

InitIndex ==
  /\ pc = "indexing"
  /\ schema \in IndexSchemas
  /\ map = <<>>
  /\ Idle
  /\ operands = <<>> /\ verdicts = <<>>

BuildIndex ==
  /\ pc = "indexing"
  /\ map' = findApiObjectDefinitions(schema)
  /\ pc' = "indexed"
  /\ UNCHANGED <<schema, include, result, out, idx, calls, other, operands, verdicts>>

NextIndex == BuildIndex

SpecIndex == InitIndex /\ [][NextIndex]_vars

-----------------------------------------------------------------------------
(* ImportKubernetesApi.generateTypeScript *)

PipelineSchemas == SchemasOf(Names, {ObjectDef, OptionsDef}, MaxDefs)

Header ==
  <<"// generated by cdk8s",
    "import { ApiObject } from 'cdk8s';",
    "import { Construct } from 'constructs';",
    "">>

Rendered == "typeGenerator.render()"

Init ==
  /\ pc = "fetching"
  /\ schema = <<>>
  /\ include \in IncludesOf(Names, MaxInclude)
  /\ map = <<>> /\ result = <<>> /\ out = <<>> /\ idx = 0
  /\ calls = <<>> /\ other = <<>> /\ operands = <<>> /\ verdicts = <<>>

\* await downloadSchema(apiVersion) resolves with the parsed document
DownloadSchema ==
  /\ pc = "fetching"
  /\ schema' \in PipelineSchemas
  /\ pc' = "indexing"
  /\ UNCHANGED <<include, map, result, out, idx, calls, other, operands, verdicts>>

\* download rejects or JSON.parse throws
DownloadFails ==
  /\ pc = "fetching"
  /\ pc' = "failed"
  /\ UNCHANGED <<schema, include, map, result, out, idx, calls, other, operands, verdicts>>

FindApiObjectDefinitions ==
  /\ pc = "indexing"
  /\ map' = findApiObjectDefinitions(schema)
  /\ pc' = "selecting"
  /\ UNCHANGED <<schema, include, result, out, idx, calls, other, operands, verdicts>>

SelectApiObjects ==
  /\ pc = "selecting"
  /\ result' = selectApiObjects(map, include)
  /\ map' = SortedInPlace(map)
  /\ idx' = 1
  /\ pc' = "emitting"
  /\ UNCHANGED <<schema, include, out, calls, other, operands, verdicts>>

\* one round of the loop: emitConstructForApiObject returns
EmitConstruct ==
  /\ pc = "emitting"
  /\ idx <= Len(result)
  /\ tryGetObjectName(result[idx].schema) # <<>>
  /\ idx' = idx + 1
  /\ UNCHANGED <<pc, schema, include, map, result, out, calls, other, operands, verdicts>>

\* variant: the header lines are written before the loop
EmitFails_HeaderFirst ==
  /\ pc = "emitting"
  /\ idx <= Len(result)
  /\ pc' = "failed"
  /\ out' = Header
  /\ UNCHANGED <<schema, include, map, result, idx, calls, other, operands, verdicts>>

\* getObjectName or generateConstruct throws
EmitFails ==
  /\ pc = "emitting"
  /\ idx <= Len(result)
  /\ pc' = "failed"
  /\ UNCHANGED <<schema, include, map, result, out, idx, calls, other, operands, verdicts>>

\* the four header lines, then the line typeGenerator.render() returned
Render ==
  /\ pc = "emitting"
  /\ idx > Len(result)
  /\ out' = Append(out \o Header, Rendered)
  /\ pc' = "done"
  /\ UNCHANGED <<schema, include, map, result, idx, calls, other, operands, verdicts>>

\* the four header lines, then typeGenerator.render() throws
RenderFails ==
  /\ pc = "emitting"
  /\ idx > Len(result)
  /\ out' = out \o Header
  /\ pc' = "failed"
  /\ UNCHANGED <<schema, include, map, result, idx, calls, other, operands, verdicts>>

Next ==
  \/ DownloadSchema
  \/ DownloadFails
  \/ FindApiObjectDefinitions
  \/ SelectApiObjects
  \/ EmitConstruct
  \/ EmitFails
  \/ Render
  \/ RenderFails

Spec == Init /\ [][Next]_vars

-----------------------------------------------------------------------------
(* selectApiObjects called repeatedly on one index, and a second run over   *)
(* the same definitions in another order                                    *)

CallNames == {AppsV1Deployment, AppsV1beta1Deployment, ExtV1Deployment, CoreV1Pod}

CallSchemas == SchemasOf(CallNames, {ObjectDef}, MaxPermuted)

Reordered(s) ==
  {t \in [1..Len(s) -> {s[i] : i \in 1..Len(s)}] :
     \A i \in 1..Len(s) : \E j \in 1..Len(s) : t[j] = s[i]}

InitCalls ==
  /\ pc = "find"
  /\ schema \in CallSchemas
  /\ include \in IncludesOf(CallNames, MaxInclude)
  /\ map = <<>> /\ result = <<>> /\ out = <<>> /\ idx = 0
  /\ calls = <<>>
  /\ \E t \in Reordered(schema) : other = [schema |-> t, map |-> <<>>, result |-> <<>>]
  /\ operands = <<>> /\ verdicts = <<>>

CallFind ==
  /\ pc = "find"
  /\ map' = findApiObjectDefinitions(schema)
  /\ pc' = "select"
  /\ UNCHANGED <<schema, include, result, out, idx, calls, other, operands, verdicts>>

CallSelect ==
  /\ pc = "select"
  /\ result' = selectApiObjects(map, include)
  /\ map' = SortedInPlace(map)
  /\ calls' = Append(calls, result')
  /\ pc' = IF Len(calls') < MaxCalls THEN "select" ELSE "other"
  /\ UNCHANGED <<schema, include, out, idx, other, operands, verdicts>>

OtherRun ==
  /\ pc = "other"
  /\ LET m == findApiObjectDefinitions(other.schema)
     IN other' = [schema |-> other.schema,
                  map |-> SortedInPlace(m),
                  result |-> selectApiObjects(m, include)]
  /\ pc' = "compared"
  /\ UNCHANGED <<schema, include, map, result, out, idx, calls, operands, verdicts>>

NextCalls ==
  \/ CallFind
  \/ CallSelect
  \/ OtherRun

SpecCalls == InitCalls /\ [][NextCalls]_vars

-----------------------------------------------------------------------------
(* The comparator on three candidates of one kind *)

Candidate(version) ==
  ApiObjectDefinition(parseApiTypeName(<<W("apps"), version, W("Deployment")>>), ObjectDef)

InitCompare ==
  /\ pc = "compare"
  /\ operands \in [1..3 -> {Candidate(v) : v \in Versions}]
  /\ verdicts = <<>>
  /\ schema = <<>> /\ map = <<>>
  /\ Idle

Compare ==
  /\ pc = "compare"
  /\ verdicts' = [ab |-> compareApiVersions(operands[1], operands[2]),
                  ba |-> compareApiVersions(operands[2], operands[1]),
                  bc |-> compareApiVersions(operands[2], operands[3]),
                  ac |-> compareApiVersions(operands[1], operands[3])]
  /\ pc' = "compared"
  /\ UNCHANGED <<schema, include, map, result, out, idx, calls, other, operands>>

NextCompare == Compare

SpecCompare == InitCompare /\ [][NextCompare]_vars

-----------------------------------------------------------------------------
(* Properties of the index builder *)

\* the positions <<k, j>> of the index
Slots(m) == UNION {{<<k, j>> : j \in 1..Len(m[k].defs)} : k \in 1..Len(m)}

SlotsOf(m, name) == {p \in Slots(m) : m[p[1]].defs[p[2]].fullname = name}

\* the rule of the classifier, stated on the document: at least one triple
\* under the annotation and a declared metadata property
AnnotatedWithMetadata(def) ==
  /\ def.hasGvk /\ Len(def.gvk) >= 1
  /\ def.hasProps /\ "metadata" \in def.props

HasVersionSegment(name) == \E i \in 1..Len(name) : IsVersionSegment(name[i])

\* C4: a definition is accepted as an API object iff its annotation lists at
\* least one triple and its properties declare metadata; an accepted one yields
\* the first triple; a rejected one never stops the scan and has no index entry,
\* an accepted one has one.
C4_ClassifierRule ==
  /\ pc = "indexing" => ENABLED BuildIndex
  /\ \A i \in 1..Len(schema) :
       LET d == schema[i].def
           got == tryGetObjectName(d)
       IN /\ (got # <<>>) <=> AnnotatedWithMetadata(d)
          /\ got # <<>> => got = <<d.gvk[1]>>
          /\ pc = "indexed" => ((SlotsOf(map, schema[i].name) # {}) <=> AnnotatedWithMetadata(d))

\* C4 witness: an index built from a schema holding a definition with the
\* annotation but no metadata (left out) and an accepted definition with two
\* triples (kept).
C4_Witness ==
  /\ pc = "indexed"
  /\ \E i, j \in 1..Len(schema) :
       /\ schema[i].def = OptionsDef /\ SlotsOf(map, schema[i].name) = {}
       /\ schema[j].def = TwoGvkDef /\ SlotsOf(map, schema[j].name) # {}
       /\ tryGetObjectName(schema[j].def) = <<GvkB>>

\* C5 (as claimed): a definition whose name has no version segment is left out
\* of the index, even when the classifier accepts it.
C5_MalformedNameSkipped ==
  pc = "indexed" =>
    \A i \in 1..Len(schema) :
      ~HasVersionSegment(schema[i].name) => SlotsOf(map, schema[i].name) = {}

\* C10: the index holds exactly the accepted definitions, each once, in the
\* list keyed by its parsed basename, with its raw schema; keys are distinct,
\* no list is empty, and there are at most as many keys as accepted definitions.
C10_IndexExact ==
  pc = "indexed" =>
    LET accepted == {i \in 1..Len(schema) : AnnotatedWithMetadata(schema[i].def)}
    IN /\ \A i \in accepted :
            /\ Cardinality(SlotsOf(map, schema[i].name)) = 1
            /\ \A p \in SlotsOf(map, schema[i].name) :
                 /\ map[p[1]].key = parseApiTypeName(schema[i].name).basename
                 /\ map[p[1]].defs[p[2]].basename = map[p[1]].key
                 /\ map[p[1]].defs[p[2]].schema = schema[i].def
       /\ \A p \in Slots(map) :
            \E i \in accepted : schema[i].name = map[p[1]].defs[p[2]].fullname
       /\ \A k \in 1..Len(map) : map[k].defs # <<>>
       /\ \A k, l \in 1..Len(map) : map[k].key = map[l].key => k = l
       /\ Len(map) <= Cardinality(accepted)

\* C10 witness: three definitions, two accepted ones sharing a basename and a
\* rejected one: one key, two candidates.
C10_Witness ==
  /\ pc = "indexed"
  /\ Len(schema) = 3
  /\ Cardinality({i \in 1..Len(schema) : AnnotatedWithMetadata(schema[i].def)}) = 2
  /\ Len(map) = 1 /\ Len(map[1].defs) = 2

-----------------------------------------------------------------------------
(* Properties of selectApiObjects in the pipeline *)

\* selectApiObjects has returned (the emit loop has its start position)
HasSelected == idx >= 1

\* the candidates of the k-th kind that the include list names
Named(k) == {j \in 1..Len(map[k].defs) : map[k].defs[j].fullname \in include}

\* C1: the selection has exactly one entry for each key of the index: as many
\* entries as keys, and each key is the kind of exactly one entry.
C1_OnePerKind ==
  HasSelected =>
    /\ Len(result) = Len(map)
    /\ \A k \in 1..Len(map) :
         Cardinality({r \in 1..Len(result) : result[r].basename = map[k].key}) = 1

\* C1 witness: two kinds, one of them with two candidates, two entries selected.
C1_Witness ==
  /\ HasSelected
  /\ Len(map) = 2 /\ Len(result) = 2
  /\ \E k \in 1..Len(map) : Len(map[k].defs) = 2

\* C2 (as claimed): every candidate the include list names is the entry
\* returned for its kind.
C2_EveryNamedSelected ==
  HasSelected =>
    \A k \in 1..Len(map) : \A j \in Named(k) : result[k] = map[k].defs[j]

\* C2 (amended): a kind with exactly one named candidate yields that candidate,
\* whatever its rank; a kind with several yields one of them, the first of the
\* sorted list, so that no named candidate ranks below it.
C2_OverridePrecedence ==
  HasSelected =>
    \A k \in 1..Len(map) :
      /\ \A j \in Named(k) : Cardinality(Named(k)) = 1 => result[k] = map[k].defs[j]
      /\ Named(k) # {} =>
           /\ \E j \in Named(k) :
                /\ result[k] = map[k].defs[j]
                /\ \A i \in Named(k) : j <= i
           /\ \A i \in Named(k) : compareApiVersions(result[k], map[k].defs[i]) <= 0

\* C2 witness: v1beta1 is the one named candidate of a kind that also has v1,
\* and v1beta1 is selected.
C2_Witness ==
  /\ HasSelected
  /\ \E k \in 1..Len(map) :
       /\ Cardinality(Named(k)) = 1
       /\ result[k].fullname = AppsV1beta1Deployment
       /\ \E j \in 1..Len(map[k].defs) : map[k].defs[j].fullname = AppsV1Deployment

\* C3: a kind none of whose candidates is named yields a maximum of its
\* candidates under the comparator, the last element of the sorted list; v1 for
\* the candidates v1beta1 and v1.
C3_DefaultIsMaximum ==
  HasSelected =>
    \A k \in 1..Len(map) :
      Named(k) = {} =>
        /\ \A j \in 1..Len(map[k].defs) : compareApiVersions(map[k].defs[j], result[k]) <= 0
        /\ result[k] = map[k].defs[Len(map[k].defs)]
        /\ {map[k].defs[j].fullname : j \in 1..Len(map[k].defs)}
             = {AppsV1beta1Deployment, AppsV1Deployment}
           => result[k].fullname = AppsV1Deployment

\* C3 witness: v1 was discovered before v1beta1, nothing is named, and v1 is
\* selected.
C3_Witness ==
  /\ HasSelected
  /\ include = {}
  /\ Len(schema) = 2
  /\ schema[1].name = AppsV1Deployment /\ schema[2].name = AppsV1beta1Deployment
  /\ Len(result) = 1 /\ result[1].fullname = AppsV1Deployment

-----------------------------------------------------------------------------
(* Properties of the pipeline *)

\* C8 (as claimed): a failed run has written nothing.
C8_NothingWrittenOnFailure == pc = "failed" => out = <<>>

Stages == <<"fetching", "indexing", "selecting", "emitting", "done">>

StageOf(p) == CHOOSE i \in 1..Len(Stages) : Stages[i] = p

\* the run goes fetching, indexing, selecting, emitting, done in
\* this order or stops in "failed" for good; a run that failed in the fetch or
\* in the emission of a construct has written nothing, a run that failed in
\* typeGenerator.render() has written the four header lines and no type text.
C8_Written ==
  /\ pc \in {"fetching", "indexing", "selecting", "emitting", "done", "failed"}
  /\ pc \in {"fetching", "indexing", "selecting", "emitting"} => out = <<>>
  /\ pc = "done" => out = Append(Header, Rendered)
  /\ pc = "failed" /\ idx <= Len(result) => out = <<>>
  /\ pc = "failed" /\ idx > Len(result) => out = Header

C8_Linear ==
  pc' # pc =>
    /\ pc \notin {"done", "failed"}
    /\ pc' = "failed" \/ StageOf(pc') = StageOf(pc) + 1

\* C8 (amended): what a run has written at every position, and the linear
\* order of its positions with failure as a stop.
C8_FailureOutput == []C8_Written /\ [][C8_Linear]_vars

\* C8 witness: render threw after every construct was emitted: the header is
\* written.
C8_Witness ==
  /\ pc = "failed"
  /\ Len(result) = 2 /\ idx = 3
  /\ out = Header

-----------------------------------------------------------------------------
(* Properties of repeated calls and of the two orders *)

\* C7: every later call of selectApiObjects on the same index and include list
\* returns what the first call returned, entry by entry.
C7_Idempotent == \A i \in 1..Len(calls) : calls[i] = calls[1]

\* C7 witness: the first call reordered a candidate list that holds two equally
\* ranked candidates, and the second call returned the same selection.
C7_Witness ==
  /\ Len(calls) = 2 /\ calls[2] = calls[1]
  /\ map # findApiObjectDefinitions(schema)
  /\ \E k \in 1..Len(map) : \E i, j \in 1..Len(map[k].defs) :
       i # j /\ compareApiVersions(map[k].defs[i], map[k].defs[j]) = 0

SameKind(r, o) == r.basename = o.basename

\* C6: two orders of the same definitions give the same kinds, and for each
\* kind the same definition or two definitions the comparator ranks as equal.
C6_OrderIndependent ==
  pc = "compared" =>
    /\ {map[k].key : k \in 1..Len(map)} = {other.map[k].key : k \in 1..Len(other.map)}
    /\ Len(result) = Len(other.result)
    /\ \A r \in 1..Len(result) : \A o \in 1..Len(other.result) :
         SameKind(result[r], other.result[o]) =>
           \/ result[r] = other.result[o]
           \/ /\ compareApiVersions(result[r], other.result[o]) = 0
              /\ compareApiVersions(other.result[o], result[r]) = 0

\* C6 witness: the orders differ, a kind with v1beta1 before v1 in one order and
\* after it in the other selects v1 in both.
C6_Witness ==
  /\ pc = "compared"
  /\ other.schema # schema
  /\ Len(schema) = 2
  /\ schema[1].name = AppsV1Deployment /\ schema[2].name = AppsV1beta1Deployment
  /\ include = {}
  /\ result = other.result /\ result[1].fullname = AppsV1Deployment

-----------------------------------------------------------------------------
(* Properties of the comparator *)

\* the rank the ordering rule gives a version: major numeral, then stability
\* (GA 2, beta 1, alpha 0), then trailing numeral (missing: 0)
Rank(d) == Major(d.version) * 10000 + Stability(d.version) * 100 + Trailing(d.version)

VersionsOf(i, j, v, w) == operands[i].version = v /\ operands[j].version = w

\* C9: the comparator orders by major numeral, then stability, then trailing
\* numeral, so that v2 > v1beta1 > v1alpha3 > v1alpha1; compare(a,b) is
\* -compare(b,a); and the order is transitive.
C9_ComparatorOrder ==
  pc = "compared" =>
    /\ verdicts.ab = 0 - verdicts.ba
    /\ verdicts.ab >= 0 /\ verdicts.bc >= 0 => verdicts.ac >= 0
    /\ verdicts.ab > 0 /\ verdicts.bc >= 0 => verdicts.ac > 0
    /\ verdicts.ab >= 0 /\ verdicts.bc > 0 => verdicts.ac > 0
    /\ verdicts.ab = Sign(Rank(operands[1]) - Rank(operands[2]))
    /\ VersionsOf(1, 2, V2, V1beta1) => verdicts.ab > 0
    /\ VersionsOf(2, 3, V1beta1, V1alpha3) => verdicts.bc > 0
    /\ VersionsOf(1, 3, V1alpha3, V1alpha1) => verdicts.ac > 0
    /\ VersionsOf(1, 3, V2, V1alpha1) => verdicts.ac > 0

\* C9 witness: v2, v1beta1 and v1alpha3 compared pairwise, each above the next.
C9_Witness ==
  /\ pc = "compared"
  /\ VersionsOf(1, 2, V2, V1beta1) /\ VersionsOf(2, 3, V1beta1, V1alpha3)
  /\ verdicts.ab = 1 /\ verdicts.bc = 1 /\ verdicts.ac = 1 /\ verdicts.ba = -1

====
